---- MODULE Spec2Model ----
(***************************************************************************)
(* Model of src/hume_twilio_bridge.py: one HumeTwilioBridge session.       *)
(*                                                                         *)
(* Two asyncio tasks run on one event loop: the task executing             *)
(* HumeTwilioBridge.run (position pc) and the task created at line 174     *)
(* executing receive_hume_messages (position hpc).  A task runs atomically *)
(* from one await to the next, so each action below is the code between    *)
(* two consecutive awaits of one task.  A send on a socket takes effect at *)
(* the call (the frame is built and handed to the transport before the     *)
(* coroutine can be suspended), so it is part of the step that makes it.   *)
(***************************************************************************)
EXTENDS Integers, Sequences, FiniteSets, TLC

\* Bounds of the model: how many messages each socket delivers, and the
\* value at which the count of consecutive idle timeouts saturates.
MaxTwilioMsgs == 3
MaxHumeMsgs == 2
MaxTimeouts == 2

None == "None"

VARIABLES
    pc,             \* position of run(): the await it is suspended at
    hpc,            \* position of the task running receive_hume_messages
    hume_ws,        \* self.hume_ws: None or the handle "ws"
    stream_sid,     \* self.stream_sid
    call_sid,       \* self.call_sid
    running,        \* self._running
    humeConn,       \* the AI socket itself: "none", "open", "closed"
    twilioConn,     \* the telephony socket: "pending", "accepted", "closed"
    humeSent,       \* messages sent on the AI socket, in order
    twilioSent,     \* frames sent on the telephony socket, in order
    humeCloseCalls, \* how many times the session invoked hume_ws.close()
    twilioCloseCalls, \* how many times the session invoked twilio_ws.close()
    cancelRequested,\* hume_task.cancel() has been called
    tRecv,          \* telephony messages consumed by run()
    hRecv,          \* AI messages consumed by receive_hume_messages
    timeouts,       \* consecutive idle timeouts of the telephony receive
    started,        \* a telephony start event has been handled
    sendAttempts,   \* calls of twilio_ws.send_json made by the AI receive task
    access,         \* <<loop, field, mode>>: which loop read or wrote which field
    cin,            \* codec round trip: the mu-law buffer it started from
    cbuf,           \* codec round trip: the buffer at the present stage
    cstage,         \* codec round trip: the stage reached ("idle" in a session)
    propagating,    \* an exception is passing through the finally block
    exit,           \* how run() ended: "none", "returned", "propagated"
    ev              \* the step taken last

vars == <<pc, hpc, hume_ws, stream_sid, call_sid, running, humeConn,
          twilioConn, humeSent, twilioSent, humeCloseCalls, twilioCloseCalls,
          cancelRequested, tRecv, hRecv, timeouts, started, propagating, exit,
          ev, sendAttempts, access, cin, cbuf, cstage>>

\* What neither task's step changes unless it says so.
sessionFields == <<hume_ws, stream_sid, call_sid, running>>
sockets == <<humeConn, twilioConn>>
traffic == <<humeSent, twilioSent>>
codec == <<cin, cbuf, cstage>>

----------------------------------------------------------------------------
\* Messages

\* Line 82-89: the negotiation message.
session_settings ==
    [type |-> "session_settings", encoding |-> "linear16",
     sample_rate |-> 48000, channels |-> 1]

\* Telephony messages as receive_text delivers them.  "badjson" is text that
\* json.loads rejects.  A start event may lack streamSid or callSid, or carry
\* a "start" member that is no object.  A media payload is absent ("none"),
\* not valid base64 ("bad"), or valid ("ok").
TwilioMsgs ==
    {[event |-> "badjson"], [event |-> "stop"], [event |-> "other"]}
    \cup {[event |-> "start", streamSid |-> s, callSid |-> c, startOk |-> TRUE] :
            s \in {"MZ1", "MZ2", None}, c \in {"CA1", None}}
    \cup {[event |-> "start", streamSid |-> "MZ1", callSid |-> None, startOk |-> FALSE]}
    \cup {[event |-> "media", payload |-> p] : p \in {"none", "bad", "ok"}}

\* AI messages as the async iterator delivers them.
HumeMsgs ==
    {[type |-> t] : t \in {"badjson", "user_message", "assistant_message",
                           "user_interruption", "error", "other"}}
    \cup {[type |-> "audio_output", data |-> d] : d \in {"none", "bad", "ok"}}

----------------------------------------------------------------------------
\* The session after __init__ (lines 59-65), run() about to be awaited.
SessionInit ==
    /\ pc = "connect"
    /\ hpc = "none"
    /\ hume_ws = None
    /\ stream_sid = None
    /\ call_sid = None
    /\ running = FALSE
    /\ humeConn = "none"
    /\ twilioConn = "pending"
    /\ humeSent = <<>>
    /\ twilioSent = <<>>
    /\ humeCloseCalls = 0
    /\ twilioCloseCalls = 0
    /\ cancelRequested = FALSE
    /\ tRecv = 0
    /\ hRecv = 0
    /\ timeouts = 0
    /\ started = FALSE
    /\ propagating = FALSE
    /\ exit = "none"
    /\ ev = "init"
    /\ sendAttempts = 0
    /\ access = {}

\* Init: a new session; the codec round trip (CodecSpec) is not in play.
Init ==
    /\ SessionInit
    /\ cin = <<>>
    /\ cbuf = <<>>
    /\ cstage = "idle"

----------------------------------------------------------------------------
\* Codec (lines 38-53), on abstract frames: a frame is its number in the
\* order of receipt, tagged with the encoding it is in.
ToAiFormat(n) == <<"pcm48k", n>>
ToTelephonyFormat(n) == <<"ulaw8k", n>>

Min(a, b) == IF a < b THEN a ELSE b

\* The session states of the design, read off the position of run().
Idle == pc \in {"connect", "settings", "accept"}
Active == pc \in {"recv", "timedout"} /\ running
Terminated == pc \in {"closing", "done"}

----------------------------------------------------------------------------
\* connect_hume (lines 67-96) and the head of run (lines 170-174)

\* Line 73 returns: the AI socket is open and self.hume_ws holds it.
ConnectOk ==
    /\ pc = "connect"
    /\ pc' = "settings"
    /\ hume_ws' = "ws"
    /\ humeConn' = "open"
    /\ ev' = "connect_ok"
    /\ UNCHANGED <<hpc, stream_sid, call_sid, running, twilioConn, traffic,
                   humeCloseCalls, twilioCloseCalls, sendAttempts, access, codec, started, cancelRequested, tRecv,
                   hRecv, timeouts, propagating, exit>>

\* Line 73 raises: line 94 catches, connect_hume returns False, run returns
\* at line 171.
ConnectFail ==
    /\ pc = "connect"
    /\ pc' = "done"
    /\ exit' = "returned"
    /\ ev' = "connect_fail"
    /\ UNCHANGED <<hpc, sessionFields, sockets, traffic, humeCloseCalls,
                   twilioCloseCalls, sendAttempts, access, codec, started, cancelRequested, tRecv, hRecv, timeouts,
                   propagating>>

\* SettingsOk with line 174 left out: the AI receive task is not created.
SettingsOk_NoTask ==
    /\ pc = "settings"
    /\ humeConn = "open"
    /\ humeSent' = Append(humeSent, session_settings)
    /\ running' = TRUE
    /\ pc' = "accept"
    /\ ev' = "settings_ok"
    /\ UNCHANGED <<hpc, hume_ws, stream_sid, call_sid, sockets, twilioSent,
                   humeCloseCalls, twilioCloseCalls, sendAttempts, access, codec, started, cancelRequested,
                   tRecv, hRecv, timeouts, propagating, exit>>

\* SettingsOk with the send of line 90 left out.
SettingsOk_NotSent ==
    /\ pc = "settings"
    /\ humeConn = "open"
    /\ running' = TRUE
    /\ hpc' = "created"
    /\ pc' = "accept"
    /\ ev' = "settings_ok"
    /\ UNCHANGED <<hume_ws, stream_sid, call_sid, sockets, traffic,
                   humeCloseCalls, twilioCloseCalls, sendAttempts, access, codec, started, cancelRequested,
                   tRecv, hRecv, timeouts, propagating, exit>>

\* Line 90 sends session_settings, connect_hume returns True; run sets
\* _running (173), creates the AI receive task (174) and awaits accept (177).
SettingsOk ==
    /\ pc = "settings"
    /\ humeConn = "open"
    /\ humeSent' = Append(humeSent, session_settings)
    /\ running' = TRUE
    /\ hpc' = "created"
    /\ pc' = "accept"
    /\ ev' = "settings_ok"
    /\ UNCHANGED <<hume_ws, stream_sid, call_sid, sockets, twilioSent,
                   humeCloseCalls, twilioCloseCalls, sendAttempts, access, codec, started, cancelRequested, tRecv,
                   hRecv, timeouts, propagating, exit>>

\* SettingsFail with the result of connect_hume ignored at line 170: run goes
\* on to lines 173-177 although the negotiation failed.
SettingsFail_ResultIgnored ==
    /\ pc = "settings"
    /\ running' = TRUE
    /\ hpc' = "created"
    /\ pc' = "accept"
    /\ ev' = "settings_fail"
    /\ UNCHANGED <<hume_ws, stream_sid, call_sid, sockets, traffic,
                   humeCloseCalls, twilioCloseCalls, sendAttempts, access, codec, started, cancelRequested,
                   tRecv, hRecv, timeouts, propagating, exit>>

\* Line 90 raises: line 94 catches, connect_hume returns False, run returns
\* at line 171; nothing closes the socket line 73 opened.
SettingsFail ==
    /\ pc = "settings"
    /\ pc' = "done"
    /\ exit' = "returned"
    /\ ev' = "settings_fail"
    /\ UNCHANGED <<hpc, sessionFields, sockets, traffic, humeCloseCalls,
                   twilioCloseCalls, sendAttempts, access, codec, started, cancelRequested, tRecv, hRecv, timeouts,
                   propagating>>

----------------------------------------------------------------------------
\* The finally block of run (lines 187-190), up to the await of close():
\* cancel the AI receive task, and invoke close() on the AI socket when the
\* handle is set.  exc tells whether an exception is passing through.
Teardown(exc) ==
    /\ cancelRequested' = TRUE
    /\ propagating' = exc
    /\ IF hume_ws # None
         THEN /\ humeCloseCalls' = humeCloseCalls + 1
              /\ pc' = "closing"
              /\ exit' = exit
         ELSE /\ humeCloseCalls' = humeCloseCalls
              /\ pc' = "done"
              /\ exit' = IF exc THEN "propagated" ELSE "returned"

\* Line 178: the telephony loop reads the running flag before each wait.
LoopTest == {<<"telephony", "running", "r">>}

\* Line 177 returns: the telephony socket is accepted; _running is true, so
\* run awaits the first receive (178-180).
AcceptOk ==
    /\ pc = "accept"
    /\ twilioConn = "pending"
    /\ twilioConn' = "accepted"
    /\ pc' = "recv"
    /\ ev' = "accept_ok"
    /\ access' = access \cup LoopTest
    /\ UNCHANGED <<hpc, sessionFields, humeConn, traffic, humeCloseCalls,
                   twilioCloseCalls, sendAttempts, codec, started,
                   cancelRequested, tRecv, hRecv, timeouts, propagating, exit>>

\* Line 177 raises: outside the inner try, so the exception passes through
\* the finally block.
AcceptFail ==
    /\ pc = "accept"
    /\ twilioConn' = "closed"
    /\ Teardown(TRUE)
    /\ ev' = "accept_fail"
    /\ UNCHANGED <<hpc, sessionFields, humeConn, traffic, twilioCloseCalls, sendAttempts, access, codec, started,
                   tRecv, hRecv, timeouts>>

----------------------------------------------------------------------------
\* Lines 100-123: the session fields the telephony loop reads or writes in
\* handling m.  A start event writes the stream identifier (103) and, when
\* line 104 does not raise, the call identifier, which 105 reads; a media
\* event with a payload reads the AI socket handle (109, 119); a stop event
\* reads the call identifier (122) and writes the running flag (123).
TwilioTouches(m) ==
    CASE m.event = "start" ->
            {<<"telephony", "stream_sid", "w">>}
            \cup (IF m.startOk
                    THEN {<<"telephony", "call_sid", "w">>,
                          <<"telephony", "call_sid", "r">>}
                    ELSE {})
      [] m.event = "media" ->
            IF m.payload = "none" THEN {} ELSE {<<"telephony", "hume_ws", "r">>}
      [] m.event = "stop" ->
            {<<"telephony", "call_sid", "r">>, <<"telephony", "running", "w">>}
      [] OTHER -> {}

\* handle_twilio_message with line 123 left out: a stop event is logged only.
handle_twilio_message_StopIgnored(m) ==
    LET same == [sid |-> stream_sid, call |-> call_sid, run |-> running,
                 sent |-> humeSent, raised |-> FALSE]
    IN  CASE m.event = "start" ->
                [same EXCEPT !.sid = m.streamSid,
                             !.call = IF m.startOk THEN m.callSid ELSE call_sid,
                             !.raised = ~m.startOk]
          [] m.event = "media" ->
                IF m.payload = "none" \/ hume_ws = None
                  THEN same
                ELSE IF m.payload = "bad" \/ humeConn # "open"
                  THEN [same EXCEPT !.raised = TRUE]
                ELSE [same EXCEPT !.sent =
                        Append(humeSent, [type |-> "audio_input",
                                          data |-> ToAiFormat(tRecv + 1)])]
          [] OTHER -> same

\* handle_twilio_message (lines 98-123), as the values it leaves behind for
\* message m: the two identifiers, the running flag, what has been sent on
\* the AI socket, and whether it raised.
handle_twilio_message(m) ==
    LET same == [sid |-> stream_sid, call |-> call_sid, run |-> running,
                 sent |-> humeSent, raised |-> FALSE]
    IN  CASE m.event = "start" ->
                \* 103 assigns before 104 can raise on a "start" member
                \* that has no .get
                [same EXCEPT !.sid = m.streamSid,
                             !.call = IF m.startOk THEN m.callSid ELSE call_sid,
                             !.raised = ~m.startOk]
          [] m.event = "media" ->
                IF m.payload = "none" \/ hume_ws = None
                  THEN same
                ELSE IF m.payload = "bad"
                  THEN [same EXCEPT !.raised = TRUE]          \* 111 raises
                ELSE IF humeConn # "open"
                  THEN [same EXCEPT !.raised = TRUE]          \* 119 raises
                ELSE [same EXCEPT !.sent =
                        Append(humeSent, [type |-> "audio_input",
                                          data |-> ToAiFormat(tRecv + 1)])]
          [] m.event = "stop" -> [same EXCEPT !.run = FALSE]
          [] OTHER -> same

\* The label of the step that consumes telephony message m.
TwilioEv(m) ==
    CASE m.event = "media" -> "t_media_" \o m.payload
      [] m.event = "start" -> IF m.startOk THEN "t_start" ELSE "t_start_bad"
      [] OTHER -> "t_" \o m.event

\* Lines 180-181 with 184-186: json.loads raises on text that is no JSON, and
\* the except clause of line 184 leaves the loop.
TwilioDecodeFailure ==
    /\ Teardown(FALSE)
    /\ UNCHANGED <<sessionFields, humeSent>>

\* Lines 178-186: receive_text returns a message; it is decoded and handled,
\* and the loop goes on, ends (the flag is false) or is left by the except
\* clause of line 184, the last two through the finally block.
TwilioReceive ==
    /\ pc = "recv"
    /\ twilioConn = "accepted"
    /\ tRecv < MaxTwilioMsgs
    /\ \E m \in TwilioMsgs :
         /\ ev' = TwilioEv(m)
         /\ started' = (started \/ m.event = "start")
         /\ access' = access \cup TwilioTouches(m) \cup LoopTest
         /\ IF m.event = "badjson"
              THEN TwilioDecodeFailure
              ELSE LET r == handle_twilio_message(m)
                   IN  /\ stream_sid' = r.sid
                       /\ call_sid' = r.call
                       /\ running' = r.run
                       /\ humeSent' = r.sent
                       /\ hume_ws' = hume_ws
                       /\ IF r.raised \/ ~r.run
                            THEN Teardown(FALSE)
                            ELSE /\ pc' = "recv"
                                 /\ UNCHANGED <<cancelRequested, propagating,
                                                humeCloseCalls, exit>>
    /\ tRecv' = tRecv + 1
    /\ timeouts' = 0
    /\ UNCHANGED <<hpc, sockets, twilioSent, twilioCloseCalls, sendAttempts,
                   codec, hRecv>>

\* Line 180 raises because the telephony socket closed or failed: line 184.
TwilioReceiveError ==
    /\ pc = "recv"
    /\ twilioConn = "accepted"
    /\ twilioConn' = "closed"
    /\ Teardown(FALSE)
    /\ timeouts' = 0
    /\ ev' = "t_error"
    /\ UNCHANGED <<hpc, sessionFields, humeConn, traffic, twilioCloseCalls, sendAttempts, access, codec, started,
                   tRecv, hRecv>>

\* IdleTimeout with the timeout ending the call: line 183 clears the flag
\* and leaves the loop.
IdleTimeout_ClearsFlag ==
    /\ pc = "recv"
    /\ running' = FALSE
    /\ Teardown(FALSE)
    /\ timeouts' = Min(timeouts + 1, MaxTimeouts)
    /\ ev' = "t_timeout"
    /\ UNCHANGED <<hpc, hume_ws, stream_sid, call_sid, sockets, traffic,
                   twilioCloseCalls, sendAttempts, access, codec, started, tRecv, hRecv>>

\* Line 180: no message within the 30 s window, wait_for raises TimeoutError
\* into run.
IdleTimeout ==
    /\ pc = "recv"
    /\ pc' = "timedout"
    /\ timeouts' = Min(timeouts + 1, MaxTimeouts)
    /\ ev' = "t_timeout"
    /\ UNCHANGED <<hpc, sessionFields, sockets, traffic, humeCloseCalls,
                   twilioCloseCalls, sendAttempts, access, codec, started, cancelRequested, tRecv, hRecv,
                   propagating, exit>>

\* ReEnterWait with line 183 a break: the except clause of line 182 leaves
\* the loop as the one of line 184 does.
ReEnterWait_Breaks ==
    /\ pc = "timedout"
    /\ Teardown(FALSE)
    /\ ev' = "t_rewait"
    /\ UNCHANGED <<hpc, sessionFields, sockets, traffic, twilioCloseCalls, sendAttempts, access, codec,
                   started, tRecv, hRecv, timeouts>>

\* Lines 182-183, 178, 180: continue, test the flag, wait again.
ReEnterWait ==
    /\ pc = "timedout"
    /\ IF running
         THEN /\ pc' = "recv"
              /\ UNCHANGED <<cancelRequested, propagating, humeCloseCalls, exit>>
         ELSE Teardown(FALSE)
    /\ ev' = "t_rewait"
    /\ access' = access \cup LoopTest
    /\ UNCHANGED <<hpc, sessionFields, sockets, traffic, twilioCloseCalls,
                   sendAttempts, codec, started, tRecv, hRecv, timeouts>>

\* Line 190 returns: the AI socket is closed and run is over.
CloseDone ==
    /\ pc = "closing"
    /\ humeConn' = "closed"
    /\ pc' = "done"
    /\ exit' = IF propagating THEN "propagated" ELSE "returned"
    /\ ev' = "close_done"
    /\ UNCHANGED <<hpc, sessionFields, twilioConn, traffic, humeCloseCalls,
                   twilioCloseCalls, sendAttempts, access, codec, started, cancelRequested, tRecv, hRecv, timeouts,
                   propagating>>

\* RunCancelled with CancelledError handled like the exceptions of line 184
\* before the try of line 176 existed: run is left at once, whatever the await.
RunCancelled_NoFinally ==
    /\ pc \in {"connect", "settings", "accept", "recv", "closing"}
    /\ pc' = "done"
    /\ exit' = "propagated"
    /\ ev' = "cancelled"
    /\ UNCHANGED <<hpc, sessionFields, sockets, traffic, humeCloseCalls,
                   twilioCloseCalls, sendAttempts, access, codec, started, cancelRequested, propagating,
                   tRecv, hRecv, timeouts>>

\* The task awaiting run() is cancelled: CancelledError is raised at the
\* await run is suspended at.  It is no Exception, so neither line 94 nor
\* line 184 catches it; inside the try of line 176 it passes through the
\* finally block.
RunCancelled ==
    /\ pc \in {"connect", "settings", "accept", "recv", "closing"}
    /\ IF pc \in {"accept", "recv"}
         THEN Teardown(TRUE)
         ELSE /\ pc' = "done"
              /\ exit' = "propagated"
              /\ UNCHANGED <<cancelRequested, propagating, humeCloseCalls>>
    /\ ev' = "cancelled"
    /\ UNCHANGED <<hpc, sessionFields, sockets, traffic, twilioCloseCalls, sendAttempts, access, codec, started,
                   tRecv, hRecv, timeouts>>

----------------------------------------------------------------------------
\* The AI receive task

\* ReachesSend with line 131 testing the data alone.
ReachesSend_NoSidTest(m) ==
    m.type = "audio_output" /\ m.data = "ok"

\* Lines 129-143: handling m comes to the call of send_json at line 143.
\* The message is an audio_output, the data and the stream identifier are
\* there (131), and the data decodes and transcodes (134-136).
ReachesSend(m) ==
    /\ m.type = "audio_output"
    /\ m.data # "none" /\ stream_sid # None
    /\ m.data = "ok"

\* Lines 127-131: the session fields the AI receive loop reads or writes in
\* handling m.  Only line 131 (and 140 after it) reads one, the stream
\* identifier, and only once the data is found to be there.
HumeTouches(m) ==
    IF m.type = "audio_output" /\ m.data # "none"
      THEN {<<"ai", "stream_sid", "r">>}
      ELSE {}

\* handle_hume_message with the new frame put in front of the frames sent
\* so far (a send queue written at the wrong end).
handle_hume_message_Prepends(m) ==
    IF m.type = "audio_output"
         /\ m.data # "none" /\ stream_sid # None
         /\ m.data = "ok" /\ twilioConn = "accepted"
      THEN <<[event |-> "media", streamSid |-> stream_sid,
              payload |-> ToTelephonyFormat(hRecv + 1)]>> \o twilioSent
      ELSE twilioSent

\* handle_hume_message with line 131 testing the data alone.
handle_hume_message_NoSidTest(m) ==
    IF m.type = "audio_output" /\ m.data = "ok" /\ twilioConn = "accepted"
      THEN Append(twilioSent, [event |-> "media", streamSid |-> stream_sid,
                               payload |-> ToTelephonyFormat(hRecv + 1)])
      ELSE twilioSent

\* handle_hume_message (lines 125-156), as what it leaves on the telephony
\* socket for message m.  Only audio_output sends: with data and a stream
\* identifier (131) the frame is transcoded and sent under the identifier
\* held at that moment (138-143); a failure of the decoding (134-136) or of
\* send_json (143: the socket is not accepted, or closed) is caught at 144.
handle_hume_message(m) ==
    IF ReachesSend(m) /\ twilioConn = "accepted"
      THEN Append(twilioSent, [event |-> "media", streamSid |-> stream_sid,
                               payload |-> ToTelephonyFormat(hRecv + 1)])
      ELSE twilioSent

\* The label of the step that consumes AI message m.
HumeEv(m) ==
    IF m.type = "audio_output" THEN "h_audio_" \o m.data ELSE "h_" \o m.type

\* The task created at line 174 runs for the first time, up to the first
\* await of the async for (161).
HumeTaskStart ==
    /\ hpc = "created"
    /\ ~cancelRequested
    /\ hpc' = "recv"
    /\ ev' = "h_started"
    /\ access' = access \cup {<<"ai", "hume_ws", "r">>}
    /\ UNCHANGED <<pc, sessionFields, sockets, traffic, humeCloseCalls,
                   twilioCloseCalls, sendAttempts, codec, started,
                   cancelRequested, tRecv, hRecv, timeouts, propagating, exit>>

\* HumeReceive with the cancellation of line 188 swallowed (a bare except
\* around the send of line 143): the task goes on receiving.
HumeReceive_IgnoresCancel ==
    /\ hpc = "recv"
    /\ humeConn = "open"
    /\ hRecv < MaxHumeMsgs
    /\ \E m \in HumeMsgs :
         /\ ev' = HumeEv(m)
         /\ IF m.type = "badjson"
              THEN /\ hpc' = "done"
                   /\ twilioSent' = twilioSent
                   /\ sendAttempts' = sendAttempts
                   /\ access' = access
              ELSE /\ hpc' = "recv"
                   /\ twilioSent' = handle_hume_message(m)
                   /\ sendAttempts' =
                         sendAttempts + (IF ReachesSend(m) THEN 1 ELSE 0)
                   /\ access' = access \cup HumeTouches(m)
    /\ hRecv' = hRecv + 1
    /\ UNCHANGED <<pc, sessionFields, sockets, humeSent, humeCloseCalls,
                   twilioCloseCalls, codec, started, cancelRequested, tRecv,
                   timeouts, propagating, exit>>

\* HumeReceive with an error event of the AI service raised at line 154
\* instead of logged: the except clause of line 165 ends the task.
HumeReceive_ErrorIsFatal ==
    /\ hpc = "recv"
    /\ humeConn = "open"
    /\ ~cancelRequested
    /\ hRecv < MaxHumeMsgs
    /\ \E m \in HumeMsgs :
         /\ ev' = HumeEv(m)
         /\ IF m.type \in {"badjson", "error"}
              THEN /\ hpc' = "done"
                   /\ twilioSent' = twilioSent
                   /\ sendAttempts' = sendAttempts
                   /\ access' = access
              ELSE /\ hpc' = "recv"
                   /\ twilioSent' = handle_hume_message(m)
                   /\ sendAttempts' =
                         sendAttempts + (IF ReachesSend(m) THEN 1 ELSE 0)
                   /\ access' = access \cup HumeTouches(m)
    /\ hRecv' = hRecv + 1
    /\ UNCHANGED <<pc, sessionFields, sockets, humeSent, humeCloseCalls,
                   twilioCloseCalls, codec, started, cancelRequested, tRecv,
                   timeouts, propagating, exit>>

\* Lines 161-162 with 165-166: a message arrives; json.loads raises on text
\* that is no JSON and the except clause of line 165 ends the task;
\* otherwise the message is handled and the task waits for the next.
HumeReceive ==
    /\ hpc = "recv"
    /\ humeConn = "open"
    /\ ~cancelRequested
    /\ hRecv < MaxHumeMsgs
    /\ \E m \in HumeMsgs :
         /\ ev' = HumeEv(m)
         /\ IF m.type = "badjson"
              THEN /\ hpc' = "done"
                   /\ twilioSent' = twilioSent
                   /\ sendAttempts' = sendAttempts
                   /\ access' = access
              ELSE /\ hpc' = "recv"
                   /\ twilioSent' = handle_hume_message(m)
                   /\ sendAttempts' =
                         sendAttempts + (IF ReachesSend(m) THEN 1 ELSE 0)
                   /\ access' = access \cup HumeTouches(m)
    /\ hRecv' = hRecv + 1
    /\ UNCHANGED <<pc, sessionFields, sockets, humeSent, humeCloseCalls,
                   twilioCloseCalls, codec, started, cancelRequested, tRecv,
                   timeouts, propagating, exit>>

\* HumeConnectionClosed with the AI loop clearing the running flag when its
\* socket closes (a write to _running in the handler of line 162).
HumeConnectionClosed_ClearsFlag ==
    /\ hpc = "recv"
    /\ humeConn = "closed"
    /\ ~cancelRequested
    /\ hpc' = "done"
    /\ running' = FALSE
    /\ access' = access \cup {<<"ai", "running", "w">>}
    /\ ev' = "h_closed"
    /\ UNCHANGED <<pc, hume_ws, stream_sid, call_sid, sockets, traffic,
                   humeCloseCalls, twilioCloseCalls, sendAttempts, codec,
                   started, cancelRequested, tRecv, hRecv, timeouts,
                   propagating, exit>>

\* Lines 161 and 163-164: the iterator raises ConnectionClosed; the task
\* logs and ends.  Nothing else is done: the running flag stays as it is.
HumeConnectionClosed ==
    /\ hpc = "recv"
    /\ humeConn = "closed"
    /\ ~cancelRequested
    /\ hpc' = "done"
    /\ ev' = "h_closed"
    /\ UNCHANGED <<pc, sessionFields, sockets, traffic, humeCloseCalls,
                   twilioCloseCalls, sendAttempts, access, codec, started, cancelRequested, tRecv, hRecv, timeouts,
                   propagating, exit>>

\* Line 188 took effect: CancelledError is raised in the task at its await
\* (or before its first step); no except clause of the task catches it.
HumeTaskCancelled ==
    /\ hpc \in {"created", "recv"}
    /\ cancelRequested
    /\ hpc' = "cancelled"
    /\ ev' = "h_cancelled"
    /\ UNCHANGED <<pc, sessionFields, sockets, traffic, humeCloseCalls,
                   twilioCloseCalls, sendAttempts, access, codec, started, cancelRequested, tRecv, hRecv, timeouts,
                   propagating, exit>>

\* Environment: the AI service closes its socket, or the connection fails.
HumeConnectionLost ==
    /\ humeConn = "open"
    /\ pc \notin {"closing", "done"}
    /\ humeConn' = "closed"
    /\ ev' = "hume_lost"
    /\ UNCHANGED <<pc, hpc, sessionFields, twilioConn, traffic, humeCloseCalls,
                   twilioCloseCalls, sendAttempts, access, codec, started, cancelRequested, tRecv, hRecv, timeouts,
                   propagating, exit>>

----------------------------------------------------------------------------
\* The steps of the task executing run()
RunStep ==
    \/ ConnectOk
    \/ ConnectFail
    \/ SettingsOk
    \/ SettingsFail
    \/ AcceptOk
    \/ AcceptFail
    \/ TwilioReceive
    \/ TwilioReceiveError
    \/ IdleTimeout
    \/ ReEnterWait
    \/ CloseDone

\* The steps of the task executing receive_hume_messages()
HumeStep ==
    \/ HumeTaskStart
    \/ HumeReceive
    \/ HumeConnectionClosed
    \/ HumeTaskCancelled

Next ==
    \/ RunStep
    \/ HumeStep
    \/ HumeConnectionLost
    \/ RunCancelled

Spec == Init /\ [][Next]_vars

\* The event loop runs every task that is ready, and the timer of wait_for
\* fires when no message arrives: each task takes its next step if it stays
\* able to.  What the two peers and the canceller do is not constrained.
FairSpec == Spec /\ WF_vars(RunStep) /\ WF_vars(HumeStep)

TypeOK ==
    /\ pc \in {"connect", "settings", "accept", "recv", "timedout", "closing", "done"}
    /\ hpc \in {"none", "created", "recv", "done", "cancelled"}
    /\ hume_ws \in {None, "ws"}
    /\ stream_sid \in {None, "MZ1", "MZ2"}
    /\ call_sid \in {None, "CA1"}
    /\ running \in BOOLEAN
    /\ humeConn \in {"none", "open", "closed"}
    /\ twilioConn \in {"pending", "accepted", "closed"}
    /\ humeCloseCalls \in 0..1
    /\ twilioCloseCalls = 0
    /\ tRecv \in 0..MaxTwilioMsgs
    /\ hRecv \in 0..MaxHumeMsgs
    /\ timeouts \in 0..MaxTimeouts
    /\ exit \in {"none", "returned", "propagated"}
    /\ sendAttempts \in 0..MaxHumeMsgs
    /\ access \subseteq ({"telephony", "ai"}
                          \X {"running", "stream_sid", "call_sid", "hume_ws"}
                          \X {"r", "w"})

----------------------------------------------------------------------------
\* The codec functions of lines 38-53.  A telephony buffer is a sequence of
\* mu-law bytes (0..255); a PCM buffer is a sequence of signed 16-bit
\* samples (the width argument 2 of every audioop call), one element per
\* sample.

MaxLen == 3

\* Bytes the round trip is tried on: both ends of each sign's range, the
\* two codes of silence (127, 255), a segment edge (15, 16) and one more.
SampleBytes == {0, 1, 15, 16, 127, 128, 200, 255}

RECURSIVE SeqsUpTo(_, _)
SeqsUpTo(S, n) ==
    IF n = 0 THEN {<<>>}
    ELSE LET shorter == SeqsUpTo(S, n - 1)
         IN  shorter \cup {Append(q, x) : q \in {r \in shorter : Len(r) = n - 1}, x \in S}

RECURSIVE Pow2(_)
Pow2(k) == IF k = 0 THEN 1 ELSE 2 * Pow2(k - 1)

\* audioop.ulaw2lin for one byte: complement, then segment and mantissa
\* with the bias 0x84, the sign taken from bit 7.
ulaw2lin(b) ==
    LET u == 255 - b
        t == (((u % 16) * 8) + 132) * Pow2((u \div 16) % 8)
    IN  IF u >= 128 THEN 132 - t ELSE t - 132

\* Line 40: audioop.ulaw2lin(data, 2).
ulaw_to_pcm(data) == [i \in 1..Len(data) |-> ulaw2lin(data[i])]

\* The segment ends of the mu-law encoder.
seg_uend == <<63, 127, 255, 511, 1023, 2047, 4095, 8191>>

\* The 7-bit code of a magnitude: clip at 8159, add the bias 33, find the
\* segment, keep four mantissa bits; past the last segment the code is 0x7F.
ULawCode(mag) ==
    LET v == (IF mag > 8159 THEN 8159 ELSE mag) + 33
        segs == {k \in 1..8 : v <= seg_uend[k]}
    IN  IF segs = {} THEN 127
        ELSE LET seg == (CHOOSE k \in segs : \A j \in segs : k <= j) - 1
             IN  seg * 16 + ((v \div Pow2(seg + 1)) % 16)

\* audioop.lin2ulaw for one 16-bit sample: the sample is reduced to 14
\* bits, the code of its magnitude is XORed with 0x7F for a negative sample
\* and with 0xFF otherwise (the code is below 128, so the XOR is a
\* subtraction).
lin2ulaw(sample) ==
    LET v == sample \div 4
    IN  IF v < 0 THEN 127 - ULawCode(-v) ELSE 255 - ULawCode(v)

\* pcm_to_ulaw with the sign of the sample dropped: every code is XORed
\* with 0xFF.
pcm_to_ulaw_NoSignMask(data) ==
    [i \in 1..Len(data) |->
        LET v == data[i] \div 4
        IN  255 - ULawCode(IF v < 0 THEN -v ELSE v)]

\* Line 45: audioop.lin2ulaw(data, 2).
pcm_to_ulaw(data) == [i \in 1..Len(data) |-> lin2ulaw(data[i])]

RECURSIVE gcd(_, _)
gcd(a, b) == IF b = 0 THEN a ELSE gcd(b, a % b)

\* The loop of audioop.ratecv for one channel with no carried state
\* (prev = cur = 0, d = -outrate): while d < 0 the next input sample is
\* taken (the call returns when there is none); while d >= 0 a sample
\* interpolated between prev and cur is put out.
RECURSIVE ratecv_loop(_, _, _, _, _, _, _, _)
ratecv_loop(data, i, d, prev, cur, inrate, outrate, out) ==
    IF d < 0
      THEN IF i > Len(data)
             THEN out
             ELSE ratecv_loop(data, i + 1, d + outrate, cur, data[i],
                              inrate, outrate, out)
      ELSE ratecv_loop(data, i, d - inrate, prev, cur, inrate, outrate,
                       Append(out, (prev * d + cur * (outrate - d)) \div outrate))

\* Line 53: audioop.ratecv(data, 2, 1, from_rate, to_rate, None)[0]; the
\* rates are first divided by their greatest common divisor.
resample(data, from_rate, to_rate) ==
    LET g == gcd(from_rate, to_rate)
    IN  ratecv_loop(data, 1, -(to_rate \div g), 0, 0,
                    from_rate \div g, to_rate \div g, <<>>)

\* The round trip, one call per step, everything else of a session at rest:
\* cin is the telephony buffer it starts from, cbuf the buffer as it is now
\* and cstage its format.
CodecInit ==
    /\ SessionInit
    /\ cin \in SeqsUpTo(SampleBytes, MaxLen)
    /\ cbuf = cin
    /\ cstage = "ulaw8k"

CodecStep(from, to, result) ==
    /\ cstage = from
    /\ cbuf' = result
    /\ cstage' = to
    /\ UNCHANGED <<cin, pc, hpc, sessionFields, sockets, traffic,
                   humeCloseCalls, twilioCloseCalls, sendAttempts, access,
                   started, cancelRequested, tRecv, hRecv, timeouts,
                   propagating, exit, ev>>

\* Line 112.
UlawToPcm == CodecStep("ulaw8k", "pcm8k", ulaw_to_pcm(cbuf))

\* Line 113.
ResampleUp == CodecStep("pcm8k", "pcm48k", resample(cbuf, 8000, 48000))

\* Line 135.
ResampleDown == CodecStep("pcm48k", "pcm8k_back", resample(cbuf, 48000, 8000))

\* Line 136.
PcmToUlaw == CodecStep("pcm8k_back", "ulaw8k_back", pcm_to_ulaw(cbuf))

CodecNext == UlawToPcm \/ ResampleUp \/ ResampleDown \/ PcmToUlaw

CodecSpec == CodecInit /\ [][CodecNext]_vars

----------------------------------------------------------------------------
\* Properties

\* connect_hume has returned True: run is past line 171, which in the same
\* step creates the AI receive task.
ConnectHumeSucceeded == hpc # "none"

HumeAudioEvs == {"h_audio_none", "h_audio_bad", "h_audio_ok"}

\* C1: the telephony socket is accepted only after connect_hume returned
\* True (the negotiation message is on the AI socket and run is past line
\* 171); and when connect_hume fails, at the connect or at the send of
\* session_settings, run has returned with the telephony socket not
\* accepted, the AI receive task never created, no telephony message
\* consumed and nothing forwarded.
C1_AcceptOnlyAfterConnect ==
    /\ twilioConn = "accepted" =>
          /\ ConnectHumeSucceeded
          /\ hume_ws # None
          /\ humeSent # <<>> /\ humeSent[1] = session_settings
    /\ ev \in {"connect_fail", "settings_fail"} =>
          /\ pc = "done" /\ exit = "returned"
          /\ twilioConn = "pending"
          /\ hpc = "none"
          /\ tRecv = 0 /\ hRecv = 0
          /\ humeSent = <<>> /\ twilioSent = <<>>

\* C1 witness: the AI socket opened, the send of session_settings failed and
\* run is over.
C1_Witness ==
    /\ ev = "settings_fail" /\ pc = "done"
    /\ hume_ws # None /\ twilioConn = "pending"

\* C2: every step that sends a telephony frame appends exactly one frame,
\* carrying the stream identifier the session holds at that step, which is
\* not None; and an audio_output handled while no stream identifier is held
\* sends nothing and ends neither the AI receive task nor the session.
C2_FramesCarryStreamSid ==
    [][ /\ twilioSent' # twilioSent =>
             /\ stream_sid # None
             /\ \E f \in [event : {"media"}, streamSid : {stream_sid},
                          payload : {ToTelephonyFormat(hRecv + 1)}] :
                   twilioSent' = Append(twilioSent, f)
        /\ (ev' \in HumeAudioEvs /\ stream_sid = None) =>
             /\ twilioSent' = twilioSent
             /\ hpc' = "recv"
             /\ pc' = pc /\ running' = running /\ cancelRequested' = cancelRequested
      ]_vars

\* C2 witness: a first audio_output was forwarded under MZ1, a start event
\* with no streamSid then cleared the identifier, and a second audio_output
\* was dropped with the session still active.
C2_Witness ==
    /\ ev = "h_audio_ok" /\ hRecv = 2
    /\ stream_sid = None /\ started
    /\ Len(twilioSent) = 1 /\ twilioSent[1].streamSid = "MZ1"
    /\ Active /\ hpc = "recv"

\* C3: once the AI socket has closed while the session is Active, the
\* session reaches Terminated, whatever the telephony side does.
C3_AiCloseTerminates == (Active /\ humeConn = "closed") ~> Terminated

\* C4: when run is over after connect_hume returned True, cancel() of the AI
\* receive task has been called and close() has been invoked on the AI
\* socket, whichever way run was left.
C4_TeardownOnEveryExit ==
    (pc = "done" /\ ConnectHumeSucceeded) =>
        /\ cancelRequested
        /\ humeCloseCalls >= 1

\* C4 witness: run was cancelled while awaiting a telephony message; the
\* exception passed through the finally block and left run.
C4_Witness ==
    /\ pc = "done" /\ exit = "propagated"
    /\ twilioConn = "accepted" /\ tRecv >= 1
    /\ cancelRequested /\ humeCloseCalls = 1
    /\ hpc = "cancelled"

\* C5: when run is over, the session has invoked close() exactly once on
\* the AI socket if the connect of line 73 succeeded, and exactly once on
\* the telephony socket if it was accepted.
C5_SocketsClosedOnce ==
    exit # "none" =>
        /\ hume_ws # None => humeCloseCalls = 1
        /\ twilioConn = "accepted" => twilioCloseCalls = 1

\* C6: a message that is no JSON, on either socket, is skipped: after the
\* step that consumes it the telephony loop is waiting for the next message
\* with the flag set, and the AI receive task is waiting for the next
\* message.
C6_BadJsonSkipped ==
    [][ /\ ev' = "t_badjson" => (pc' = "recv" /\ running' /\ ~cancelRequested')
        /\ ev' = "h_badjson" => (hpc' = "recv" /\ Active')
      ]_vars

\* C7: a frame whose audio payload cannot be decoded is dropped alone, in
\* either direction: nothing is sent for it and the loop that consumed it
\* waits for the next message with the session Active.
C7_BadFrameDropped ==
    [][ /\ ev' = "t_media_bad" =>
             (humeSent' = humeSent /\ pc' = "recv" /\ running' /\ ~cancelRequested')
        /\ ev' = "h_audio_bad" =>
             (twilioSent' = twilioSent /\ hpc' = "recv" /\ pc' = pc /\ running' = running)
      ]_vars

\* C8: an idle timeout of the telephony receive changes nothing of the
\* session (flag, identifiers, handles, sockets), sends nothing, and ends
\* with the telephony loop waiting again; the session is Active after it,
\* however many timeouts came before.
C8_IdleTimeoutNoOp ==
    [][ ev' \in {"t_timeout", "t_rewait"} =>
          /\ UNCHANGED <<sessionFields, sockets, traffic, hpc, humeCloseCalls,
                         twilioCloseCalls, sendAttempts, access, codec, cancelRequested, exit>>
          /\ Active /\ Active'
          /\ ev' = "t_timeout" => (pc = "recv" /\ pc' = "timedout")
          /\ ev' = "t_rewait" => (pc = "timedout" /\ pc' = "recv")
      ]_vars

\* C8 witness: MaxTimeouts timeouts in a row, and the telephony loop is
\* waiting again with the session Active.
C8_Witness ==
    /\ ev = "t_rewait" /\ timeouts = MaxTimeouts /\ MaxTimeouts >= 2
    /\ pc = "recv" /\ Active /\ ~cancelRequested

CountType(q, t) == Cardinality({i \in DOMAIN q : q[i].type = t})

\* C10: session_settings is sent at most once, exactly once when
\* connect_hume returned True, and whenever anything has been sent on the
\* AI socket it is the first message there: every audio_input comes after
\* it, and none is sent when it was not.
C10_NegotiationFirstAndOnce ==
    /\ CountType(humeSent, "session_settings") <= 1
    /\ ConnectHumeSucceeded => CountType(humeSent, "session_settings") = 1
    /\ humeSent # <<>> => humeSent[1] = session_settings
    /\ \A i \in DOMAIN humeSent :
          humeSent[i].type = "audio_input" =>
              (i > 1 /\ humeSent[1].type = "session_settings")

\* C10 witness: two audio_input messages follow the negotiation message.
C10_Witness ==
    /\ Len(humeSent) = 3
    /\ humeSent[1] = session_settings
    /\ humeSent[2].type = "audio_input" /\ humeSent[3].type = "audio_input"

\* The audio_input messages among those sent on the AI socket, in order.
AudioInputs == SelectSeq(humeSent, LAMBDA x : x.type = "audio_input")

\* C11: in each direction the frames sent are, in order and without
\* repetition, frames that were received: the numbers of receipt of the
\* telephony frames sent are strictly increasing and among the AI messages
\* consumed, the numbers of receipt of the audio_input messages sent are
\* strictly increasing and among the telephony messages consumed, and each
\* frame is in the encoding of the side it is sent to.
C11_ReceiptOrderPreserved ==
    /\ \A i \in DOMAIN twilioSent :
          /\ twilioSent[i].payload[1] = "ulaw8k"
          /\ twilioSent[i].payload[2] \in 1..hRecv
          /\ \A j \in DOMAIN twilioSent :
                i < j => twilioSent[i].payload[2] < twilioSent[j].payload[2]
    /\ \A i \in DOMAIN AudioInputs :
          /\ AudioInputs[i].data[1] = "pcm48k"
          /\ AudioInputs[i].data[2] \in 1..tRecv
          /\ \A j \in DOMAIN AudioInputs :
                i < j => AudioInputs[i].data[2] < AudioInputs[j].data[2]

\* C11 witness: two frames were forwarded in each direction.
C11_Witness ==
    /\ Len(twilioSent) = 2 /\ Len(AudioInputs) = 2
    /\ twilioSent[1].payload[2] = 1 /\ twilioSent[2].payload[2] = 2

\* C12: the step that handles a telephony stop event, or in which the
\* telephony receive raises, ends the telephony loop and starts teardown,
\* so the session is Terminated as soon as the event is handled; from then
\* on no telephony message is consumed and nothing more is sent to the AI
\* socket; and run then comes to its end: while it awaits the close of line
\* 190 a step of run is always possible, every step of run from there ends
\* it, and no other step takes it back (with the weak fairness of run's
\* task in FairSpec these three give that run eventually returns).
C12_StopEndsTelephonyLoop ==
    /\ [][ev' \in {"t_stop", "t_error"} =>
             (Terminated' /\ cancelRequested' /\ pc' = "closing")]_vars
    /\ [][Terminated => (tRecv' = tRecv /\ humeSent' = humeSent)]_vars
    /\ [](pc = "closing" => ENABLED <<RunStep>>_vars)
    /\ [][(pc = "closing" /\ RunStep) => pc' = "done"]_vars
    /\ [][Terminated => Terminated']_vars

\* C12 witness: a stop event was handled as the first telephony message,
\* with more messages deliverable, and run has returned.
C12_Witness ==
    /\ pc = "done" /\ exit = "returned"
    /\ ConnectHumeSucceeded /\ ~running
    /\ tRecv = 1 /\ tRecv < MaxTwilioMsgs

\* C13: once teardown has begun (cancel() of the AI receive task has been
\* called, which the step that leaves the telephony loop does), the session
\* is Terminated and stays so: no step sends anything on either socket,
\* consumes a message from either socket or changes a session field, and
\* the session is not Active after it.
C13_TerminatedIsTerminal ==
    /\ [](cancelRequested => Terminated)
    /\ [][cancelRequested =>
             /\ UNCHANGED <<traffic, tRecv, hRecv, sessionFields, cancelRequested>>
             /\ Terminated' /\ ~Active'
             /\ hpc' \in {hpc, "cancelled"} ]_vars

\* C13 witness: teardown has begun while the AI receive task is still
\* waiting on an open AI socket that can deliver a message, with a stream
\* identifier held and the telephony socket accepted, frames having been
\* forwarded before.
C13_Witness ==
    /\ cancelRequested /\ pc = "closing"
    /\ hpc = "recv" /\ humeConn = "open" /\ hRecv < MaxHumeMsgs
    /\ stream_sid # None /\ twilioConn = "accepted"
    /\ Len(twilioSent) = 1

\* The steps that handle an AI message other than audio_output.
HumeInfoEvs == {"h_user_message", "h_assistant_message", "h_user_interruption",
                "h_error", "h_other"}

\* C14: a step that handles an AI message other than audio_output sends
\* nothing on either socket and changes neither the running flag, the two
\* identifiers, the AI socket handle nor the sockets; the AI receive task
\* waits for the next message and run() is where it was.  In particular
\* after an error event the session is as Active as before, and an
\* audio_output that comes next is forwarded when a stream identifier is
\* held.
C14_InfoEventsEndAtBridge ==
    /\ [][ev' \in HumeInfoEvs =>
             /\ UNCHANGED <<traffic, sessionFields, sockets, pc,
                            cancelRequested, humeCloseCalls, exit>>
             /\ hpc = "recv" /\ hpc' = "recv"
             /\ Active' = Active ]_vars
    /\ [][(ev = "h_error" /\ ev' = "h_audio_ok"
             /\ stream_sid # None /\ twilioConn = "accepted") =>
             /\ Len(twilioSent') = Len(twilioSent) + 1
             /\ twilioSent'[Len(twilioSent')].payload = ToTelephonyFormat(hRecv')
          ]_vars

\* C14 witness: an error event has just been handled with the session
\* Active, a stream identifier held and the AI socket open: the AI receive
\* task waits for the next message, which can be an audio_output.
C14_Witness ==
    /\ ev = "h_error" /\ hRecv = 1 /\ hRecv < MaxHumeMsgs
    /\ stream_sid # None /\ twilioConn = "accepted" /\ humeConn = "open"
    /\ Active /\ hpc = "recv" /\ ~cancelRequested

\* C17 as stated: the AI receive task has started, or has consumed an AI
\* message, only when the telephony accept is no longer pending.
C17_AiLoopStartsAfterAccept ==
    (hpc \in {"recv", "done"} \/ hRecv > 0) => twilioConn # "pending"

\* C17 amended: the AI receive task is created in the step in which
\* connect_hume returns True, with the negotiation sent and the running flag
\* set, while the telephony accept is still to be awaited; the accept
\* returns only after that, and telephony messages are consumed only after
\* the accept.  So the order is AI connect, negotiation, flag set and task
\* created, telephony accept, telephony loop; the task may start and handle
\* messages while the accept is pending.
C17_TaskCreatedBeforeAccept ==
    /\ [](hpc # "none" =>
            (hume_ws # None /\ humeSent # <<>> /\ humeSent[1] = session_settings))
    /\ [](twilioConn = "accepted" => hpc # "none")
    /\ [](tRecv > 0 => twilioConn # "pending")
    /\ [][(hpc = "none" /\ hpc' # "none") =>
             /\ pc = "settings" /\ pc' = "accept"
             /\ hpc' = "created" /\ running'
             /\ twilioConn' = "pending" ]_vars
    /\ [][(twilioConn = "pending" /\ twilioConn' = "accepted") =>
             /\ pc = "accept" /\ pc' = "recv"
             /\ hpc # "none" /\ running /\ tRecv = 0 ]_vars

\* C17 witness: the AI receive task has handled two messages while run() is
\* still awaiting the telephony accept.
C17_Witness ==
    /\ pc = "accept" /\ twilioConn = "pending"
    /\ hpc = "recv" /\ hRecv = 2 /\ ~cancelRequested

\* C18: while the telephony accept is pending no telephony message has been
\* consumed, so no start event has been handled and no stream identifier is
\* held; and as long as no start event has been handled the AI receive task
\* has made no call of send_json and nothing is on the telephony socket,
\* though it may have handled audio_output events.
C18_NothingSentBeforeAccept ==
    /\ twilioConn = "pending" =>
          (tRecv = 0 /\ ~started /\ stream_sid = None)
    /\ ~started => (sendAttempts = 0 /\ twilioSent = <<>>)

\* C18 witness: the AI receive task has handled an audio_output with data
\* while run() is still awaiting the telephony accept.
C18_Witness ==
    /\ pc = "accept" /\ twilioConn = "pending"
    /\ ev = "h_audio_ok" /\ hRecv >= 1 /\ hpc = "recv"
    /\ sendAttempts = 0

\* ---------------------------------------------------------------------
\* C15.  Which session fields each of the two receive loops touches.
\* access holds a triple <<loop, field, mode>> for every read ("r") and
\* write ("w") of a session field made inside the telephony loop (lines
\* 178-186 with handle_twilio_message) and inside the AI loop (lines
\* 158-166 with handle_hume_message).

Touched(loop, field) == \E mode \in {"r", "w"} : <<loop, field, mode>> \in access

TouchedByBoth(field) == Touched("telephony", field) /\ Touched("ai", field)

\* C15 as stated: besides the running flag, every mutable session field
\* (stream identifier, call identifier, AI socket handle) is read and
\* written by at most one of the two receive loops.
C15_OnlyFlagShared ==
    \A field \in {"stream_sid", "call_sid", "hume_ws"} : ~TouchedByBoth(field)

\* C15 as the code has it: the running flag and the call identifier are
\* touched by the telephony loop alone; the stream identifier is written by
\* the telephony loop alone and the AI loop only reads it; the AI socket
\* handle is written by neither loop; the AI loop writes no session field.
C15_SharingDiscipline ==
    /\ ~Touched("ai", "running")
    /\ ~Touched("ai", "call_sid")
    /\ \A field \in {"running", "stream_sid", "call_sid", "hume_ws"} :
          <<"ai", field, "w">> \notin access
    /\ <<"telephony", "hume_ws", "w">> \notin access

\* Both loops have run: the telephony loop stored the stream identifier and
\* forwarded a frame, the AI loop iterated its socket and tested the
\* stream identifier, and a stop event cleared the flag.
C15_Witness ==
    /\ {<<"telephony", "stream_sid", "w">>, <<"ai", "stream_sid", "r">>,
        <<"telephony", "hume_ws", "r">>, <<"ai", "hume_ws", "r">>,
        <<"telephony", "running", "r">>, <<"telephony", "running", "w">>}
          \subseteq access
    /\ ~running

\* ---------------------------------------------------------------------
\* C16: after ulaw_to_pcm, resample 8000 to 48000, resample 48000 to 8000
\* and pcm_to_ulaw, each with no carried filter state, the buffer has the
\* length it started with to within one sample, and a buffer of zero bytes
\* has come back as a buffer of zero bytes of that length.
AllZero(buf) == \A i \in 1..Len(buf) : buf[i] = 0

C16_RoundTrip ==
    cstage = "ulaw8k_back"
      => /\ Len(cbuf) - Len(cin) \in -1..1
         /\ AllZero(cin) => (AllZero(cbuf) /\ Len(cbuf) = Len(cin))

\* A zero buffer of two samples or more has gone round and is back.
C16_Witness ==
    /\ cstage = "ulaw8k_back"
    /\ Len(cin) >= 2
    /\ AllZero(cin)
    /\ cbuf = cin

====
